---------------------------- MODULE Spec2Model ----------------------------
(***************************************************************************)
(* State-machine model of the Sparkify ETL (gcbeltramini/etl-postgresql):  *)
(*   sql_queries.py   - the DDL and DML statements                         *)
(*   create_tables.py - the Schema Manager (drop + create)                 *)
(*   etl.py           - the Record Transformer and the Batch Driver        *)
(*                                                                         *)
(* The database is the record db: the set of existing tables and the rows  *)
(* of each.  Every cur.execute is one step, because the connection runs    *)
(* with autocommit: the state between two statements is a state the        *)
(* database can be left in.  The files under data/song_data and            *)
(* data/log_data are the variables songFiles and logFiles, in discovery    *)
(* order; they are read, never written.                                    *)
(*                                                                         *)
(* Identifiers (song_id, artist_id, userId) and texts are strings.  SQL    *)
(* NULL / Python None is the string NULL.  Seconds (duration, length) are  *)
(* integers counting Unit-ths of a second on a binary grid, timestamps are *)
(* epoch milliseconds.                                                     *)
(***************************************************************************)
EXTENDS Integers, Sequences, FiniteSets, TLC

VARIABLES
    songFiles,  \* data/song_data: sequence of song-metadata records
    logFiles,   \* data/log_data: sequence of batches (sequences of records)
    db,         \* the PostgreSQL database
    dropped,    \* whether the last create_database dropped loaded tables
    pc,         \* position of the operator / of the running main()
    func,       \* process_data: the transform it was called with
    i,          \* process_data: index of the file being processed
    df,         \* process_log_file: the filtered batch
    j           \* process_log_file: index of the row the current loop is at

vars == <<songFiles, logFiles, db, dropped, pc, func, i, df, j>>

NULL == "NULL"

---------------------------------------------------------------------------
(* Bounds of the model *)

\* number of files under data/song_data
NumSongFiles == 2
\* number of files under data/log_data
NumLogFiles == 2
\* number of records (lines) of one log file
BatchLen == 2

---------------------------------------------------------------------------
(* Numbers: seconds on a binary grid, REAL and SMALLINT columns *)

\* one second, in grid units (2^-18 s)
Unit == 2^18

\* significand of a float4 (REAL): 24 bits
RealMantissa == 2^24

RECURSIVE RealUlp(_)
\* spacing of the REAL values around v >= 0, in grid units
RealUlp(v) == IF v < RealMantissa THEN 1 ELSE 2 * RealUlp(v \div 2)

\* v >= 0 stored in a REAL column and read back as double precision:
\* rounded to the nearest REAL, ties to even
ToReal(v) ==
    LET u == RealUlp(v)
        q == v \div u
        r == v % u
    IN  IF 2 * r < u THEN q * u
        ELSE IF 2 * r > u THEN (q + 1) * u
        ELSE IF q % 2 = 0 THEN q * u ELSE (q + 1) * u

\* a numeric literal v >= 0 (grid units) assigned to a SMALLINT column:
\* rounded to the nearest integer, ties away from zero (the durations of
\* the model are below 32767.5 s, where the database would raise)
ToSmallint(v) == (v + Unit \div 2) \div Unit

\* an integer literal n assigned to a REAL column, read back in grid units
IntToReal(n) == ToReal(n * Unit)

---------------------------------------------------------------------------
(* sql_queries.py *)

table_names == <<"songs", "artists", "time", "users", "songplays">>

\* a database with no table (what CREATE DATABASE leaves)
EmptyDatabase ==
    [exists |-> {}, songs |-> {}, artists |-> {}, time |-> {}, users |-> {},
     songplays |-> <<>>, err |-> FALSE]

\* the empty contents of table t: songplays is ordered by its SERIAL key,
\* row k of the sequence has songplay_id = k
NoRows(t) == IF t = "songplays" THEN <<>> ELSE {}

\* CREATE TABLE IF NOT EXISTS t: no-op when t exists
CreateTableIfNotExists(d, t) ==
    IF t \in d.exists THEN d
    ELSE [d EXCEPT !.exists = @ \cup {t}, ![t] = NoRows(t)]

\* DROP TABLE t, without IF EXISTS: an error when t is absent
DropTableStrict(d, t) ==
    IF t \notin d.exists THEN [d EXCEPT !.err = TRUE]
    ELSE [d EXCEPT !.exists = @ \ {t}, ![t] = NoRows(t)]

\* DROP TABLE IF EXISTS t: no-op when t is absent
DropTableIfExists(d, t) ==
    IF t \notin d.exists THEN d
    ELSE [d EXCEPT !.exists = @ \ {t}, ![t] = NoRows(t)]

CREATE_TABLE_QUERIES ==
    [k \in 1..Len(table_names) |-> [op |-> "create", table |-> table_names[k]]]

DROP_TABLE_QUERIES ==
    [k \in 1..Len(table_names) |-> [op |-> "drop", table |-> table_names[k]]]

\* cur.execute of one DDL statement
ExecuteDDL(d, q) ==
    IF q.op = "create" THEN CreateTableIfNotExists(d, q.table)
    ELSE DropTableIfExists(d, q.table)

\* INSERT ... ON CONFLICT (key) DO NOTHING into a table with primary key key
InsertDoNothing(rows, row, key) ==
    IF \E r \in rows : r[key] = row[key] THEN rows ELSE rows \cup {row}

\* INSERT ... ON CONFLICT (key) DO UPDATE: the last write wins
InsertDoUpdate(rows, row, key) ==
    {r \in rows : r[key] # row[key]} \cup {row}

\* a song insert whose conflict clause overwrites the row
SongUpsert(rows, p) ==
    InsertDoUpdate(rows,
        [song_id |-> p[1], title |-> p[2], artist_id |-> p[3],
         duration |-> IntToReal(p[4]), year |-> ToSmallint(p[5])],
        "song_id")

\* SONG_TABLE_INSERT: columns (song_id, title, artist_id, duration, year),
\* bound by position to the parameter list p
SONG_TABLE_INSERT(rows, p) ==
    InsertDoNothing(rows,
        [song_id |-> p[1], title |-> p[2], artist_id |-> p[3],
         duration |-> IntToReal(p[4]), year |-> ToSmallint(p[5])],
        "song_id")

\* ARTIST_TABLE_INSERT
ARTIST_TABLE_INSERT(rows, p) ==
    InsertDoNothing(rows,
        [artist_id |-> p[1], artist_name |-> p[2], artist_location |-> p[3],
         artist_latitude |-> p[4], artist_longitude |-> p[5]],
        "artist_id")

\* TIME_TABLE_INSERT
TIME_TABLE_INSERT(rows, p) ==
    InsertDoNothing(rows,
        [timestamp |-> p[1], year |-> p[2], month |-> p[3], day |-> p[4],
         hour |-> p[5], weekofyear |-> p[6], weekday |-> p[7]],
        "timestamp")

\* a user insert whose conflict clause overwrites the row
UserUpsert(rows, p) ==
    InsertDoUpdate(rows,
        [user_id |-> p[1], first_name |-> p[2], last_name |-> p[3],
         gender |-> p[4], level |-> p[5]],
        "user_id")

\* USER_TABLE_INSERT
USER_TABLE_INSERT(rows, p) ==
    InsertDoNothing(rows,
        [user_id |-> p[1], first_name |-> p[2], last_name |-> p[3],
         gender |-> p[4], level |-> p[5]],
        "user_id")

\* a fact insert that skips a row equal to one already there
SongplayInsertDistinct(rows, p) ==
    LET row == [timestamp |-> p[1], song_id |-> p[2], artist_id |-> p[3],
                user_id |-> p[4], session_id |-> p[5], level |-> p[6],
                location |-> p[7], user_agent |-> p[8]]
    IN  IF \E k \in 1..Len(rows) : rows[k] = row THEN rows
        ELSE Append(rows, row)

\* a fact insert that rejects a row without a song: no row is added
SongplayInsertNotNull(rows, p) ==
    IF p[2] = NULL THEN rows
    ELSE Append(rows,
        [timestamp |-> p[1], song_id |-> p[2], artist_id |-> p[3],
         user_id |-> p[4], session_id |-> p[5], level |-> p[6],
         location |-> p[7], user_agent |-> p[8]])

\* SONGPLAY_TABLE_INSERT: no conflict clause, songplay_id from the sequence
SONGPLAY_TABLE_INSERT(rows, p) ==
    Append(rows,
        [timestamp |-> p[1], song_id |-> p[2], artist_id |-> p[3],
         user_id |-> p[4], session_id |-> p[5], level |-> p[6],
         location |-> p[7], user_agent |-> p[8]])

\* SONG_SELECT: the rows of songs JOIN artists with the given title, artist
\* name and duration, as <<song_id, artist_id>>
SONG_SELECT(d, p) ==
    {<<s.song_id, s.artist_id>> :
        s \in {s \in d.songs :
                 /\ s.title = p[1]
                 /\ s.duration = p[3]
                 /\ \E a \in d.artists :
                      a.artist_id = s.artist_id /\ a.artist_name = p[2]}}

---------------------------------------------------------------------------
(* create_tables.py *)

RECURSIVE execute_queries(_, _)
\* execute_queries: the statements in order, stopping at the first error
execute_queries(d, queries) ==
    IF queries = <<>> \/ d.err THEN d
    ELSE execute_queries(ExecuteDDL(d, Head(queries)), Tail(queries))


\* whether some table of d holds a row
HasRows(d) ==
    \/ d.songs # {} \/ d.artists # {} \/ d.time # {} \/ d.users # {}
    \/ d.songplays # <<>>

\* create_database: DROP DATABASE IF EXISTS, CREATE DATABASE, connect.
\* create_tables.main can be started whenever no program is running.
CreateDatabase ==
    /\ pc \in {"start", "ready", "done", "aborted", "schema_failed"}
    /\ dropped' = HasRows(db)
    /\ db' = EmptyDatabase
    /\ pc' = "schema_drop"
    /\ func' = "none" /\ i' = 0 /\ df' = <<>> /\ j' = 0
    /\ UNCHANGED <<songFiles, logFiles>>

\* main: execute_queries(cur, queries=DROP_TABLE_QUERIES)
DropTables ==
    /\ pc = "schema_drop"
    /\ db' = execute_queries(db, DROP_TABLE_QUERIES)
    /\ pc' = IF db'.err THEN "schema_failed" ELSE "schema_create"
    /\ UNCHANGED <<songFiles, logFiles, dropped, func, i, df, j>>

\* main: execute_queries(cur, CREATE_TABLE_QUERIES), print, conn.close()
CreateTables ==
    /\ pc = "schema_create"
    /\ db' = execute_queries(db, CREATE_TABLE_QUERIES)
    /\ pc' = IF db'.err THEN "schema_failed" ELSE "ready"
    /\ UNCHANGED <<songFiles, logFiles, dropped, func, i, df, j>>

---------------------------------------------------------------------------
(* etl.py: process_data and main *)

AllTables == {table_names[k] : k \in 1..Len(table_names)}

\* a position of etl.main is <<pc, func, i, j>>
Goto(pos) == pc' = pos[1] /\ func' = pos[2] /\ i' = pos[3] /\ j' = pos[4]

\* main, lines 193-195: process_data on data/log_data, then conn.close()
StartLogData ==
    IF Len(logFiles) > 0 THEN <<"log_read", "process_log_file", 1, 0>>
    ELSE <<"done", "process_log_file", 0, 0>>

\* process_data, lines 181-183: after file n of data/song_data the loop
\* goes to the next file; after the last one main goes on to data/log_data
AfterSongFile(n) ==
    IF n < Len(songFiles) THEN <<"song_insert", "process_song_file", n + 1, 0>>
    ELSE StartLogData

\* process_data, lines 181-183: after file n of data/log_data
AfterLogFile(n) ==
    IF n < Len(logFiles) THEN <<"log_read", "process_log_file", n + 1, 0>>
    ELSE <<"done", "process_log_file", n, 0>>

\* a try/except around func that goes on with the next file
SkipAndContinue(f, n, r) ==
    IF f = "process_song_file" THEN AfterSongFile(n) ELSE AfterLogFile(n)

\* an exception raised by func at row r of file n: neither process_data nor
\* main catches it, the program ends
Propagate(f, n, r) == <<"aborted", f, n, r>>

\* main: connect, then process_data(cur, 'data/song_data', process_song_file).
\* The ETL is run on the tables create_tables.main has just created.
EtlMain ==
    /\ pc = "ready"
    /\ db.exists = AllTables
    /\ Goto(AfterSongFile(0))
    /\ UNCHANGED <<songFiles, logFiles, db, dropped, df>>

---------------------------------------------------------------------------
(* etl.py: process_song_file *)

SongColumns == {"song_id", "title", "artist_id", "year", "duration"}

ArtistColumns == {"artist_id", "artist_name", "artist_location",
                  "artist_latitude", "artist_longitude"}

\* df.loc[0, [...]].values.tolist() for the song insert
song_data(rec) ==
    <<rec.song_id, rec.title, rec.artist_id, rec.year, rec.duration>>

\* df.loc[0, [...]].values.tolist() for the artist insert
artist_data(rec) ==
    <<rec.artist_id, rec.artist_name, rec.artist_location,
      rec.artist_latitude, rec.artist_longitude>>

\* lines 43-52: read the file, select the song columns, insert the song
SongInsert ==
    /\ pc = "song_insert"
    /\ songFiles[i].missing \notin SongColumns
    /\ db' = [db EXCEPT !.songs = SONG_TABLE_INSERT(@, song_data(songFiles[i]))]
    /\ pc' = "artist_insert"
    /\ UNCHANGED <<songFiles, logFiles, dropped, func, i, df, j>>

\* lines 49-51: a song column is missing, df.loc raises KeyError
SongKeyError ==
    /\ pc = "song_insert"
    /\ songFiles[i].missing \in SongColumns
    /\ Goto(Propagate(func, i, j))
    /\ UNCHANGED <<songFiles, logFiles, db, dropped, df>>

\* lines 55-59: select the artist columns, insert the artist; the file is done
ArtistInsert ==
    /\ pc = "artist_insert"
    /\ songFiles[i].missing \notin ArtistColumns
    /\ db' = [db EXCEPT
                !.artists = ARTIST_TABLE_INSERT(@, artist_data(songFiles[i]))]
    /\ Goto(AfterSongFile(i))
    /\ UNCHANGED <<songFiles, logFiles, dropped, df>>

\* lines 55-58: an artist column is missing, df.loc raises KeyError
ArtistKeyError ==
    /\ pc = "artist_insert"
    /\ songFiles[i].missing \in ArtistColumns
    /\ Goto(Propagate(func, i, j))
    /\ UNCHANGED <<songFiles, logFiles, db, dropped, df>>

---------------------------------------------------------------------------
(* etl.py: process_log_file *)

IsNextSong(rec) == rec.page = "NextSong"

\* no filter: every record is kept
KeepAll(batch) == batch

\* line 89: df.loc[df['page'] == 'NextSong', :]
FilterNextSong(batch) == SelectSeq(batch, IsNextSong)

MsPerHour == 3600000
MsPerDay == 86400000

\* lines 92-99: pd.to_datetime(ts, unit='ms') and the .dt fields, as the
\* parameters of TIME_TABLE_INSERT.  An epoch millisecond count that fits a
\* 32-bit integer lies in January 1970, which began on a Thursday:
\* weekday has Monday = 0, weekofyear is the ISO week.
time_data(ts) ==
    LET days == ts \div MsPerDay
    IN  <<ts, 1970, 1, 1 + days, (ts \div MsPerHour) % 24,
          ((days + 3) \div 7) + 1, (days + 3) % 7>>

\* line 105: the user columns of a row
user_data(rec) ==
    <<rec.userId, rec.firstName, rec.lastName, rec.gender, rec.level>>

\* lines 124-126: the songplay parameters of a row
songplay_data(rec, songid, artistid) ==
    <<rec.ts, songid, artistid, rec.userId, rec.sessionId, rec.level,
      rec.location, rec.userAgent>>

\* lines 116-121: cur.fetchone() on the SONG_SELECT result, then the
\* if/else: any one of the rows found, else (None, None)
FetchResults(found) == IF found = {} THEN {<<NULL, NULL>>} ELSE found

\* the three loops in another order: the songplays before the users
AfterLoopFactsFirst(here, f, n) ==
    IF here = "time_insert" THEN <<"songplay_insert", f, n, 1>>
    ELSE IF here = "songplay_insert" THEN <<"user_insert", f, n, 1>>
    ELSE AfterLogFile(n)

\* lines 101-112: the position after the loop at pc is through: the time
\* rows, then the users, then the songplays, then the file is done
AfterLoop(here, f, n) ==
    IF here = "time_insert" THEN <<"user_insert", f, n, 1>>
    ELSE IF here = "user_insert" THEN <<"songplay_insert", f, n, 1>>
    ELSE AfterLogFile(n)

\* the position after row r of the loop at pc over a batch of len rows
AfterRow(here, f, n, r, len) ==
    IF r < len THEN <<here, f, n, r + 1>> ELSE AfterLoop(here, f, n)

\* lines 79-99: read the file, keep the NextSong rows, build time_df
LogRead ==
    /\ pc = "log_read"
    /\ df' = FilterNextSong(logFiles[i])
    /\ Goto(IF df' = <<>> THEN AfterLogFile(i) ELSE <<"time_insert", func, i, 1>>)
    /\ UNCHANGED <<songFiles, logFiles, db, dropped>>

\* lines 101-102: one TIME_TABLE_INSERT
TimeInsert ==
    /\ pc = "time_insert"
    /\ db' = [db EXCEPT !.time = TIME_TABLE_INSERT(@, time_data(df[j].ts))]
    /\ Goto(AfterRow(pc, func, i, j, Len(df)))
    /\ UNCHANGED <<songFiles, logFiles, dropped, df>>

\* lines 108-109: one USER_TABLE_INSERT
UserInsert ==
    /\ pc = "user_insert"
    /\ df[j].userId # NULL
    /\ db' = [db EXCEPT !.users = USER_TABLE_INSERT(@, user_data(df[j]))]
    /\ Goto(AfterRow(pc, func, i, j, Len(df)))
    /\ UNCHANGED <<songFiles, logFiles, dropped, df>>

\* line 109: user_id is the primary key, a null userId is rejected by the
\* database and psycopg2 raises
UserInsertError ==
    /\ pc = "user_insert"
    /\ df[j].userId = NULL
    /\ Goto(Propagate(func, i, j))
    /\ UNCHANGED <<songFiles, logFiles, db, dropped, df>>

\* lines 112-127: SONG_SELECT, fetchone, one SONGPLAY_TABLE_INSERT
SongplayInsert ==
    /\ pc = "songplay_insert"
    /\ \E res \in FetchResults(SONG_SELECT(db,
                      <<df[j].song, df[j].artist, df[j].length>>)) :
         db' = [db EXCEPT !.songplays =
                  SONGPLAY_TABLE_INSERT(@, songplay_data(df[j], res[1], res[2]))]
    /\ Goto(AfterRow(pc, func, i, j, Len(df)))
    /\ UNCHANGED <<songFiles, logFiles, dropped, df>>

---------------------------------------------------------------------------
(* The input files *)

\* song-metadata records: a JSON object with the nine fields, or with the
\* field named by missing absent
SongRecords(ids, titles, artists, years, durations, names, absent) ==
    [song_id : ids, title : titles, artist_id : artists, year : years,
     duration : durations, artist_name : names, artist_location : {""},
     artist_latitude : {NULL}, artist_longitude : {NULL}, missing : absent]

\* log records
LogRecords(pages, tss, users, levels, songs, artists, lengths) ==
    [page : pages, ts : tss, userId : users, firstName : {"F"},
     lastName : {"L"}, gender : {"M"}, level : levels, song : songs,
     artist : artists, length : lengths, sessionId : {1}, location : {""},
     userAgent : {""}]

\* 218.38 s on the grid, and a track of 2004 s
Durations == {57247007, 2004 * Unit}
Years == {0, 2004}

\* the reference catalogue: two well-formed songs of two artists
RefSongFiles ==
    <<[song_id |-> "S1", title |-> "T1", artist_id |-> "A1", year |-> 2004,
       duration |-> 57247007, artist_name |-> "N1", artist_location |-> "",
       artist_latitude |-> NULL, artist_longitude |-> NULL, missing |-> "none"],
      [song_id |-> "S2", title |-> "T2", artist_id |-> "A2", year |-> 0,
       duration |-> 2004 * Unit, artist_name |-> "N2", artist_location |-> "",
       artist_latitude |-> NULL, artist_longitude |-> NULL, missing |-> "none"]>>

\* the reference log: plays of the catalogue, a page view, a logged-out play
RefLogFiles ==
    LET play == [page |-> "NextSong", ts |-> 1000, userId |-> "U1",
                 firstName |-> "F", lastName |-> "L", gender |-> "M",
                 level |-> "free", song |-> "T1", artist |-> "N1",
                 length |-> 57247007, sessionId |-> 1, location |-> "",
                 userAgent |-> ""]
    IN  <<<<play, [play EXCEPT !.length = 2004 * Unit, !.level = "paid"]>>,
          <<[play EXCEPT !.page = "Home"], [play EXCEPT !.userId = NULL]>>>>

\* the sets of at most two members of S
PairsOf(S) == {{a, b} : a \in S, b \in S}

\* the song records the catalogues are made of: well-formed ones, and a
\* record with one of its nine fields missing
SongPool ==
    SongRecords({"S1", "S2"}, {"T1", "T2"}, {"A1", "A2"}, Years, Durations,
                {"N1"}, {"none"})
    \cup SongRecords({"S1"}, {"T1"}, {"A1"}, {2004}, {57247007}, {"N1"},
                     SongColumns \cup ArtistColumns)

\* the song catalogues the model is run on: NumSongFiles files, of at most
\* two different records
SongCorpora == UNION {[1..NumSongFiles -> two] : two \in PairsOf(SongPool)}

\* the families of log records the model is run on: each varies the fields
\* of one step of process_log_file and fixes the others.  The first has
\* plays of user U1 and page views of user U2 at two timestamps, the second
\* plays of users at two levels and of a logged-out user, the third plays
\* that name a title and an artist, the fourth plays that name a length.
LogFamilies ==
    { LogRecords({"NextSong"}, {1000, 90061000}, {"U1"}, {"free"},
                 {"T1"}, {"N1"}, {2004 * Unit})
      \cup LogRecords({"Home"}, {1000, 90061000}, {"U2"}, {"free"},
                      {"T1"}, {"N1"}, {2004 * Unit}),
      LogRecords({"NextSong"}, {1000}, {"U1", "U2", NULL}, {"free", "paid"},
                 {"T1"}, {"N1"}, {2004 * Unit}),
      LogRecords({"NextSong"}, {1000}, {"U1"}, {"free"},
                 {"T1", "T2"}, {"N1", "N2"}, {2004 * Unit}),
      LogRecords({"NextSong"}, {1000}, {"U1"}, {"free"},
                 {"T1"}, {"N1"}, Durations) }

\* the logs the model is run on: NumLogFiles files of BatchLen records, of
\* at most two different records of one family
LogCorpora ==
    UNION {[1..NumLogFiles -> [1..BatchLen -> two]] :
             two \in UNION {PairsOf(fam) : fam \in LogFamilies}}

Init ==
    /\ \/ songFiles \in SongCorpora /\ logFiles = RefLogFiles
       \/ songFiles = RefSongFiles /\ logFiles \in LogCorpora
    /\ db = EmptyDatabase
    /\ dropped = FALSE
    /\ pc = "start"
    /\ func = "none" /\ i = 0 /\ df = <<>> /\ j = 0

Next ==
    \/ CreateDatabase
    \/ DropTables
    \/ CreateTables
    \/ EtlMain
    \/ SongInsert
    \/ SongKeyError
    \/ ArtistInsert
    \/ ArtistKeyError
    \/ LogRead
    \/ TimeInsert
    \/ UserInsert
    \/ UserInsertError
    \/ SongplayInsert

Spec == Init /\ [][Next]_vars

---------------------------------------------------------------------------
(* Properties *)

RECURSIVE PlaysUpTo(_)
\* the NextSong records of the first n log files, in processing order
PlaysUpTo(n) ==
    IF n = 0 THEN <<>>
    ELSE PlaysUpTo(n - 1) \o SelectSeq(logFiles[n], IsNextSong)

\* the NextSong records of all the log files
Plays == PlaysUpTo(Len(logFiles))

\* the number of log files process_log_file has been called on
Started ==
    IF func # "process_log_file" THEN 0
    ELSE IF pc = "log_read" THEN i - 1
    ELSE i

\* the number of log files process_log_file has returned from
Completed ==
    IF func # "process_log_file" THEN 0
    ELSE IF pc = "done" THEN i
    ELSE i - 1

\* the row df[j] the songplay loop is at has no match in songs JOIN artists
Miss ==
    /\ pc = "songplay_insert"
    /\ SONG_SELECT(db, <<df[j].song, df[j].artist, df[j].length>>) = {}

\* C1: a retained record without a matching song/artist pair still gets
\* exactly one songplays row, with song_id and artist_id NULL, and the step
\* does not abort the run.
C1_MissGivesNullRow ==
    [][Miss =>
        /\ pc' # "aborted"
        /\ Len(db'.songplays) = Len(db.songplays) + 1
        /\ SubSeq(db'.songplays, 1, Len(db.songplays)) = db.songplays
        /\ LET row == db'.songplays[Len(db'.songplays)]
           IN  /\ row.song_id = NULL /\ row.artist_id = NULL
               /\ row.timestamp = df[j].ts /\ row.user_id = df[j].userId]_vars

\* a completed run in which a play without a match sits beside a matched one
C1_Witness ==
    /\ pc = "done"
    /\ \E k \in 1..Len(db.songplays) : db.songplays[k].song_id = NULL
    /\ \E k \in 1..Len(db.songplays) : db.songplays[k].song_id # NULL

\* song file n was loaded: well formed, and the first with its song_id and
\* with its artist_id, so that its rows are the ones in the tables
Loaded(n) ==
    /\ songFiles[n].missing = "none"
    /\ \A m \in 1..(n - 1) :
         /\ songFiles[m].song_id # songFiles[n].song_id
         /\ songFiles[m].artist_id # songFiles[n].artist_id

\* log record r names the song of file n by title, artist name and duration
SameSong(r, n) ==
    /\ songFiles[n].title = r.song
    /\ songFiles[n].artist_name = r.artist
    /\ songFiles[n].duration = r.length

\* C2: a play whose song, artist and length equal the title, artist_name and
\* duration of a loaded song file gets that file's song_id and artist_id.
C2_LoadedSongIsFound ==
    LET plays == Plays
    IN  \A k \in 1..Len(db.songplays) :
            (\E n \in 1..Len(songFiles) : Loaded(n) /\ SameSong(plays[k], n))
            => \E n \in 1..Len(songFiles) :
                 /\ Loaded(n) /\ SameSong(plays[k], n)
                 /\ db.songplays[k].song_id = songFiles[n].song_id
                 /\ db.songplays[k].artist_id = songFiles[n].artist_id

\* C3: a record whose page is not NextSong adds no row: every time, users
\* and songplays row comes from a NextSong record of a file read so far.
C3_OnlyNextSongRows ==
    LET plays == PlaysUpTo(Started)
    IN  /\ \A t \in db.time :
             \E k \in 1..Len(plays) : t.timestamp = plays[k].ts
        /\ \A u \in db.users :
             \E k \in 1..Len(plays) : u.user_id = plays[k].userId
        /\ Len(db.songplays) <= Len(plays)
        /\ \A k \in 1..Len(db.songplays) :
             /\ db.songplays[k].timestamp = plays[k].ts
             /\ db.songplays[k].user_id = plays[k].userId

\* a completed run over a log with a page view whose timestamp and user no
\* play shares
C3_Witness ==
    /\ pc = "done"
    /\ db.songplays # <<>>
    /\ \E n \in 1..Len(logFiles) : \E k \in 1..Len(logFiles[n]) :
         LET r == logFiles[n][k]
             plays == Plays
         IN  /\ r.page # "NextSong"
             /\ \A m \in 1..Len(plays) :
                  plays[m].ts # r.ts /\ plays[m].userId # r.userId

\* C4: when process_song_file raises on a malformed record, neither songs
\* nor artists has gained a row from that file: every row comes from an
\* earlier file.
C4_NoPartialInsert ==
    (pc = "aborted" /\ func = "process_song_file") =>
        /\ \A s \in db.songs :
             \E n \in 1..(i - 1) : songFiles[n].song_id = s.song_id
        /\ \A a \in db.artists :
             \E n \in 1..(i - 1) : songFiles[n].artist_id = a.artist_id

\* the timestamps of a sequence of records
TimestampsOf(plays) == {plays[k].ts : k \in 1..Len(plays)}

\* C5: when process_log_file has returned, songplays holds one row per
\* NextSong record read so far, duplicates included, and time holds exactly
\* one row per distinct timestamp of those records.
C5_FactPerRecordTimePerTimestamp ==
    (func = "process_log_file" /\ pc \in {"log_read", "done"}) =>
        LET plays == PlaysUpTo(Completed)
            stamps == TimestampsOf(plays)
        IN  /\ Len(db.songplays) = Len(plays)
            /\ {t.timestamp : t \in db.time} = stamps
            /\ Cardinality(db.time) = Cardinality(stamps)

\* a completed run over a log file with two plays of one timestamp
C5_Witness ==
    /\ pc = "done"
    /\ \E n \in 1..Len(logFiles) :
         /\ Len(logFiles[n]) >= 2
         /\ IsNextSong(logFiles[n][1]) /\ IsNextSong(logFiles[n][2])
         /\ logFiles[n][1].ts = logFiles[n][2].ts
    /\ Cardinality(db.time) < Len(db.songplays)

\* C6: a song insert whose song_id is already in songs leaves songs as it
\* is and raises nothing, whatever the other fields of the record.
C6_DuplicateSongIsNoOp ==
    [][(/\ pc = "song_insert"
        /\ songFiles[i].missing \notin SongColumns
        /\ \E s \in db.songs : s.song_id = songFiles[i].song_id)
       => (db'.songs = db.songs /\ pc' = "artist_insert")]_vars

\* the second file repeats the song_id of the first with another title,
\* artist, year and duration, and its song insert has run
C6_Witness ==
    /\ pc = "artist_insert" /\ i = 2
    /\ songFiles[1].song_id = songFiles[2].song_id
    /\ songFiles[1].title # songFiles[2].title
    /\ songFiles[1].artist_id # songFiles[2].artist_id
    /\ songFiles[1].year # songFiles[2].year
    /\ songFiles[1].duration # songFiles[2].duration
    /\ Cardinality(db.songs) = 1

\* C7: the users row of a user_id holds the name, gender and level of the
\* first NextSong record with that userId in processing order, and there is
\* one row per user_id.
C7_UsersFirstWriteWins ==
    LET plays == Plays
    IN  /\ \A u \in db.users :
             \E k \in 1..Len(plays) :
                /\ plays[k].userId = u.user_id
                /\ \A m \in 1..(k - 1) : plays[m].userId # u.user_id
                /\ u.first_name = plays[k].firstName
                /\ u.last_name = plays[k].lastName
                /\ u.gender = plays[k].gender
                /\ u.level = plays[k].level
        /\ \A u, v \in db.users : u.user_id = v.user_id => u = v

\* a completed run in which a user's level differs between the first file
\* and the second
C7_Witness ==
    /\ pc = "done"
    /\ \E k \in 1..Len(logFiles[1]) : \E m \in 1..Len(logFiles[2]) :
         /\ IsNextSong(logFiles[1][k]) /\ IsNextSong(logFiles[2][m])
         /\ logFiles[1][k].userId = logFiles[2][m].userId
         /\ logFiles[1][k].level # logFiles[2][m].level
    /\ db.users # {}

\* the least element of a non-empty set of numbers
Least(S) == CHOOSE n \in S : \A m \in S : n <= m

\* the song files process_song_file raises on
BadSongFiles == {n \in 1..Len(songFiles) : songFiles[n].missing # "none"}

\* the log files process_log_file raises on: a NextSong record has no userId
BadLogFiles ==
    {n \in 1..Len(logFiles) :
        \E k \in 1..Len(logFiles[n]) :
            IsNextSong(logFiles[n][k]) /\ logFiles[n][k].userId = NULL}

\* the last song file the run gets to
LastSongFile ==
    IF BadSongFiles = {} THEN Len(songFiles) ELSE Least(BadSongFiles)

\* the last log file the run gets to
LastLogFile ==
    IF BadSongFiles # {} THEN 0
    ELSE IF BadLogFiles = {} THEN Len(logFiles) ELSE Least(BadLogFiles)

\* no file after the first one that raises is ever processed
NothingAfterTheError ==
    LET lastSong == LastSongFile
        lastLog == LastLogFile
        plays == PlaysUpTo(lastLog)
        stamps == TimestampsOf(plays)
    IN  /\ \A s \in db.songs :
             \E n \in 1..lastSong : songFiles[n].song_id = s.song_id
        /\ \A a \in db.artists :
             \E n \in (1..lastSong) \ BadSongFiles :
                songFiles[n].artist_id = a.artist_id
        /\ \A t \in db.time : t.timestamp \in stamps
        /\ \A u \in db.users :
             \E k \in 1..Len(plays) : plays[k].userId = u.user_id
        /\ Len(db.songplays) <=
             Len(PlaysUpTo(IF BadLogFiles = {} \/ lastLog = 0 THEN lastLog
                           ELSE lastLog - 1))

\* the rows written before process_song_file raised on file i are there
SongRowsRemain ==
    /\ i = LastSongFile
    /\ \A n \in 1..(i - 1) :
         /\ \E s \in db.songs : s.song_id = songFiles[n].song_id
         /\ \E a \in db.artists : a.artist_id = songFiles[n].artist_id
    /\ songFiles[i].missing \notin SongColumns =>
         \E s \in db.songs : s.song_id = songFiles[i].song_id
    /\ db.time = {} /\ db.users = {} /\ db.songplays = <<>>

\* the rows written before process_log_file raised at row j of file i are
\* there: the catalogue, the earlier files' rows, all the time rows of file i
\* and its user rows before row j
LogRowsRemain ==
    /\ i = LastLogFile
    /\ \A n \in 1..Len(songFiles) :
         /\ \E s \in db.songs : s.song_id = songFiles[n].song_id
         /\ \E a \in db.artists : a.artist_id = songFiles[n].artist_id
    /\ LET plays == PlaysUpTo(i)
           before == Len(PlaysUpTo(i - 1))
       IN  /\ {t.timestamp : t \in db.time} = TimestampsOf(plays)
           /\ Len(db.songplays) = before
           /\ \A k \in 1..(before + j - 1) :
                \E u \in db.users : u.user_id = plays[k].userId

\* C8: the first file func raises on ends the run: no later file is ever
\* processed, and the rows written before the error stay in the database.
C8_FirstErrorAbortsRun ==
    /\ NothingAfterTheError
    /\ (BadSongFiles # {} \/ BadLogFiles # {}) => pc # "done"
    /\ (pc = "aborted" /\ func = "process_song_file") => SongRowsRemain
    /\ (pc = "aborted" /\ func = "process_log_file") => LogRowsRemain

\* the run ended in the first log file, at its second row, with the time
\* rows and a user row written and a file left unprocessed
C8_Witness ==
    /\ pc = "aborted" /\ func = "process_log_file"
    /\ i = 1 /\ j = 2 /\ i < Len(logFiles)
    /\ db.time # {} /\ db.users # {}
    /\ \E k \in 1..Len(logFiles[2]) : IsNextSong(logFiles[2][k])

\* C9: create_tables.main raises nothing and ends with the five tables
\* present and empty, from any state of the database.
C9_ResetIsRepeatable ==
    /\ pc # "schema_failed"
    /\ pc = "ready" => (db.exists = AllTables /\ ~HasRows(db) /\ ~db.err)

\* create_tables.main has completed on a database an ETL run had loaded
C9_Witness ==
    /\ pc = "ready" /\ dropped
    /\ db.exists = AllTables /\ ~HasRows(db)

\* C10: every songplays row names an existing time row and an existing users
\* row, and its song_id and artist_id are both NULL or name an existing songs
\* row and an existing artists row.
C10_FactsReferenceDimensions ==
    \A k \in 1..Len(db.songplays) :
        LET row == db.songplays[k]
        IN  /\ \E t \in db.time : t.timestamp = row.timestamp
            /\ \E u \in db.users : u.user_id = row.user_id
            /\ row.song_id = NULL <=> row.artist_id = NULL
            /\ row.song_id # NULL =>
                 /\ \E s \in db.songs :
                      s.song_id = row.song_id /\ s.artist_id = row.artist_id
                 /\ \E a \in db.artists : a.artist_id = row.artist_id

\* a run that ended in its second log file, with a matched play among the
\* songplays of the first
C10_Witness ==
    /\ pc = "aborted" /\ func = "process_log_file" /\ i = 2
    /\ \E k \in 1..Len(db.songplays) : db.songplays[k].song_id # NULL
    /\ \E k \in 1..Len(db.songplays) : db.songplays[k].song_id = NULL

===========================================================================
